---- MODULE Spec2Model ----
(***************************************************************************)
(* Model of the processing status poller of the story upload flow          *)
(* (src/src/services/processingService.ts).                                 *)
(*                                                                         *)
(* One polling session is one call of pollProcessingStatus.  The session   *)
(* is a chain of asynchronous steps on the browser's event loop: poll()    *)
(* issues a status request and suspends; the request resolves or rejects   *)
(* and the rest of poll() runs; a timer set by poll() fires and calls      *)
(* poll() again.  Each such step is one action.  The callbacks the caller  *)
(* supplies are recorded, in order, in the log `calls`.                    *)
(***************************************************************************)
EXTENDS Integers, Sequences, FiniteSets, TLC

(* ---- bounds of the model ---- *)
MaxRetriesBound == 3

\* playback times are 0..MaxTime
MaxTime == 2

MaxWords == 2

MaxParagraphs == 2

MaxIllustrations == 2

MaxAuthTasks == 2

\* story list requests awaiting their response at one time
MaxFetches == 2

\* calls of uploadCompleteStory, one after the other
MaxUploads == 2

(* ---- values of the program ---- *)
DefaultPollInterval == 3000

PollIntervals == {1000, DefaultPollInterval}

MaxRetriesValues == 0..MaxRetriesBound

\* current_step values of ProcessingStatusResponse
NonTerminalSteps == {"uploading", "transcribing"}

TerminalSteps == {"published", "failed"}

Steps == NonTerminalSteps \cup TerminalSteps

\* the optional field `error?: string`: absent, empty, or any text of the backend
Undefined == "<undefined>"

ErrorFields == {Undefined, "", "audio too short", "Processing timeout - please check back later"}

ProcessingStatusResponse == [current_step : Steps, error : ErrorFields]

\* what apiClient.get throws: ApiError(detail, status)
ApiError == [detail : {"Network error occurred"}, status : {500}]
              \cup [detail : {"Not authenticated"}, status : {401}]

TimeoutMessage == "Processing timeout - please check back later"

StatusCheckFailedMessage == "Failed to check processing status"

DefaultFailedMessage == "Processing failed"

NoStatus == [current_step |-> "-", error |-> "-"]

NoMessage == "-"

(* ---- values of the players (EnhancedAudioPlayer.tsx) ---- *)
Times == 0..MaxTime

\* Array.prototype.findIndex found nothing; also useState(-1) and, for
\* findCurrentParagraph, null
NoIndex == 0 - 1

\* a lookup that has not been made
NotRun == 0 - 2

\* an optional time that is absent; in a comparison undefined becomes NaN
UndefinedTime == 0 - 3

\* Word { word, start_time, end_time }
Word == {w \in [start_time : Times, end_time : Times] : w.start_time <= w.end_time}

\* Paragraph { ..., start_time?, end_time? }, its timing alone
ParagraphTiming ==
    {p \in [start_time : Times \cup {UndefinedTime}, end_time : Times \cup {UndefinedTime}] :
        (p.start_time # UndefinedTime /\ p.end_time # UndefinedTime) => p.start_time < p.end_time}

SeqsUpTo(S, n) == UNION {[1..k -> S] : k \in 0..n}

WordLists == SeqsUpTo(Word, MaxWords)

ParagraphTimings == SeqsUpTo(ParagraphTiming, MaxParagraphs)

\* time >= x and time <= x of JavaScript: false when x is undefined (NaN)
JsGe(a, b) == a # UndefinedTime /\ b # UndefinedTime /\ a >= b

JsLe(a, b) == a # UndefinedTime /\ b # UndefinedTime /\ a <= b

JsLt(a, b) == a # UndefinedTime /\ b # UndefinedTime /\ a < b

\* variant: the end of a word is exclusive
WordActive_EndExclusive(time, word) ==
    JsGe(time, word.start_time) /\ JsLt(time, word.end_time)

\* word => time >= word.start_time && time <= word.end_time
WordActive(time, word) ==
    JsGe(time, word.start_time) /\ JsLe(time, word.end_time)

\* the predicate of IllustratedTranscriptPlayer's paragraphs.findIndex
ParagraphActive(time, paragraph) ==
    /\ paragraph.start_time # UndefinedTime
    /\ paragraph.end_time # UndefinedTime
    /\ JsGe(time, paragraph.start_time)
    /\ JsLe(time, paragraph.end_time)

\* variant: the end of a paragraph is inclusive, as in the other player
ParagraphCurrent_EndInclusive(time, paragraph) ==
    JsGe(time, paragraph.start_time) /\ JsLe(time, paragraph.end_time)

\* the predicate of EnhancedAudioPlayer's paragraphs.find:
\* p => time >= p.start_time && time < p.end_time
ParagraphCurrent(time, paragraph) ==
    JsGe(time, paragraph.start_time) /\ JsLt(time, paragraph.end_time)

\* Array.prototype.findIndex: the elements are tried from index 0 on, the
\* index (0-based) of the first one that satisfies the predicate is returned
RECURSIVE FindIndexFrom(_, _, _)
FindIndexFrom(holds, list, i) ==
    IF i > Len(list) THEN NoIndex
    ELSE IF holds[i] THEN i - 1
    ELSE FindIndexFrom(holds, list, i + 1)

\* currentTranscript.words.findIndex(word => ...)
FindWordIndex(time, wordList) ==
    FindIndexFrom([i \in 1..Len(wordList) |-> WordActive(time, wordList[i])], wordList, 1)

\* paragraphs.findIndex(paragraph => ...) of IllustratedTranscriptPlayer
FindParagraphIndex(time, paragraphList) ==
    FindIndexFrom([i \in 1..Len(paragraphList) |-> ParagraphActive(time, paragraphList[i])],
                  paragraphList, 1)

\* findCurrentParagraph of EnhancedAudioPlayer: paragraphs.find(...) || null,
\* the paragraph given by its index, null by NoIndex
findCurrentParagraph(time, paragraphList) ==
    FindIndexFrom([i \in 1..Len(paragraphList) |-> ParagraphCurrent(time, paragraphList[i])],
                  paragraphList, 1)

VARIABLES
    phase,          \* "Idle" before pollProcessingStatus is called, then "Polling"
    maxRetries,     \* parameter of the session
    pollInterval,   \* parameter of the session
    retryCount,     \* the closure variable of pollProcessingStatus
    inFlight,       \* number of status requests awaiting their response
    timers,         \* pending setTimeout(poll, delay) entries
    calls,          \* log of the callback invocations, in order
    polls,          \* log of the outcomes of the resolved status requests
    requests,       \* number of status requests issued so far
    \* waitForProcessingComplete, the promise-based wrapper of the poller
    promise,        \* the promise the wrapper returns
    settles,        \* number of resolve/reject calls the wrapper's callbacks made
    pollPromise,    \* the promise pollProcessingStatus returned to the wrapper
    \* the lookups of the players, applied to one input
    lookupInput,    \* a playback time with a word list or a paragraph list
    lookupResult,   \* what each lookup returned for it
    \* a mounted player component
    player,         \* "none", "EnhancedAudioPlayer" or "IllustratedTranscriptPlayer"
    props,          \* transcript words, translations, paragraphs
    audioTime,      \* currentTime of the <audio> element
    state,          \* the useState values after the latest set... calls
    rendered,       \* the useState values of the last render: what the page
                    \* shows and what the handlers of that render read
    lastEvent,      \* what the handler that ran last looked up and emitted
    \* the API client and the AuthProvider
    apiClient,      \* ApiClient.token and localStorage['access_token']
    authState,      \* user, isLoading, error of AuthProvider
    authTasks,      \* login / refreshUser / initializeAuth awaiting a response
    authLog,        \* the last request sent, the last login, and who is logged in
    \* the upload page
    upload,         \* status shown and the state of the fallback timer
    \* the stories page
    storiesPage,   \* the useState values of StoriesPage, its debounce timer and its requests
    \* the processing stepper
    stepper,   \* the status ProcessingStepperComponent rendered and the step states it shows
    \* StoriesService.uploadCompleteStory
    storyUpload    \* the call of uploadCompleteStory in progress and the outcomes of the calls before

pollerVars == <<phase, maxRetries, pollInterval, retryCount, inFlight, timers, calls, polls, requests>>

waitVars == <<promise, settles, pollPromise>>

\* the state of the components a polling session does not touch
lookupVars == <<lookupInput, lookupResult>>

playerVars == <<player, props, audioTime, state, rendered, lastEvent>>

authVars == <<apiClient, authState, authTasks, authLog>>

uploadVars == <<upload>>

\* the state of the subsystems beside the poller and the players
storiesPageVars == <<storiesPage>>

stepperVars == <<stepper>>

storyUploadVars == <<storyUpload>>

otherVars == <<authVars, uploadVars, storiesPageVars, stepperVars, storyUploadVars>>

notPollerVars == <<waitVars, lookupVars, playerVars, otherVars>>

vars == <<pollerVars, notPollerVars>>

(* ---- the callbacks, as entries of the log ---- *)
UpdateCall(status) == [cb |-> "onUpdate", status |-> status, message |-> NoMessage]

CompleteCall(status) == [cb |-> "onComplete", status |-> status, message |-> NoMessage]

ErrorCall(message) == [cb |-> "onError", status |-> NoStatus, message |-> message]

(* ---- the outcomes of a status request, as entries of the log ---- *)
Fulfilled(status) == [kind |-> "ok", status |-> status, httpStatus |-> 200]

Rejected(error) == [kind |-> "error", status |-> NoStatus, httpStatus |-> error.status]

\* variant: status.error ?? 'Processing failed' (only an absent error is replaced)
FailedMessage_NullishOnly(status) ==
    IF status.error = Undefined
    THEN DefaultFailedMessage
    ELSE status.error

\* status.error || 'Processing failed': an absent or empty error is falsy
FailedMessage(status) ==
    IF status.error = Undefined \/ status.error = ""
    THEN DefaultFailedMessage
    ELSE status.error

\* variant: the retry after an error waits the normal interval
ErrorInterval_NoBackoff(interval) == interval

\* setTimeout(poll, pollInterval * 2)
ErrorInterval(interval) == interval * 2

\* the highest number of requests a session of the model can issue; the guard
\* of TimerFires keeps the log finite and never binds (requests <= maxRetries + 1)
MaxRequests == MaxRetriesBound + 2

TypeOK ==
    /\ phase \in {"Idle", "Polling"}
    /\ maxRetries \in MaxRetriesValues
    /\ pollInterval \in PollIntervals
    /\ retryCount \in 0..MaxRequests
    /\ inFlight \in 0..MaxRequests
    /\ requests \in 0..MaxRequests
    /\ timers # <<>> => requests < MaxRequests
    /\ timers \in Seq([delay : Nat])
    /\ \A i \in 1..Len(calls) : calls[i].cb \in {"onUpdate", "onComplete", "onError"}
    /\ \A i \in 1..Len(polls) : polls[i].kind \in {"ok", "error"}

\* no promise exists before waitForProcessingComplete is called
NoPromise == [state |-> "none", status |-> NoStatus, message |-> NoMessage]

WaitIdle ==
    /\ promise = NoPromise
    /\ settles = 0
    /\ pollPromise = "none"

\* the input of a run that looks nothing up
NoInput == [kind |-> "none", time |-> 0, words |-> <<>>, paragraphs |-> <<>>]

LookupIdle ==
    /\ lookupInput = NoInput
    /\ lookupResult = [word |-> NotRun, paragraph |-> NotRun, current |-> NotRun]

NoProps == [words |-> <<>>, translations |-> <<>>, paragraphs |-> <<>>]

\* the useState values of both components at their first render
InitialState ==
    [currentTime |-> 0,
     currentWordIndex |-> NoIndex,
     currentParagraphIndex |-> NoIndex,
     selectedLanguage |-> "original",
     currentParagraph |-> NoIndex,
     currentIllustration |-> [paragraph |-> NoIndex, index |-> NoIndex],
     showImageGallery |-> FALSE]

NoEvent ==
    [handler |-> "none", wordIndex |-> NotRun, paragraphIndex |-> NotRun,
     wordChanged |-> FALSE, paragraphChanged |-> FALSE]

PlayerIdle ==
    /\ player = "none"
    /\ props = NoProps
    /\ audioTime = 0
    /\ state = InitialState
    /\ rendered = InitialState
    /\ lastEvent = NoEvent

\* no token: null
NoToken == "<null>"

NoUser == "<null>"

NoError == "<null>"

NoRequest == [endpoint |-> "-", authorization |-> NoToken, session |-> NoToken]

NoLogin == [outcome |-> "none", user |-> NoUser, error |-> NoError, isLoading |-> FALSE]

\* a page without a stored token, after initializeAuth has found none
AuthIdle ==
    /\ apiClient = [token |-> NoToken, localStorage |-> NoToken]
    /\ authState = [user |-> NoUser, isLoading |-> FALSE, error |-> NoError]
    /\ authTasks = <<>>
    /\ authLog = [lastRequest |-> NoRequest, lastLogin |-> NoLogin, session |-> NoToken]

\* the upload page before a submission reaches the polling
NoUpload == [status |-> "idle", processingTimeout |-> "none"]

UploadIdle == upload = NoUpload

\* the stories page before it is mounted
NoQuery == [search |-> "-", language |-> "-"]

NoStoriesPage ==
    [searchTerm |-> "", selectedLanguage |-> "", stories |-> NoQuery,
     isLoading |-> TRUE, error |-> FALSE, timers |-> <<>>, fetches |-> <<>>]

StoriesIdle == storiesPage = NoStoriesPage

\* the processing stepper before it is rendered
NoStepper ==
    [status |-> [current_step |-> "-", progress_percentage |-> 0,
                 transcript_text |-> "-", error |-> "-"],
     steps |-> <<>>, isError |-> FALSE]

StepperIdle == stepper = NoStepper

NoResult == [kind |-> "none", story |-> "-", audio_url |-> "-",
             processing_started |-> FALSE, message |-> <<>>]

\* uploadCompleteStory has not been called
NoStoryUpload ==
    [pc |-> "idle", requests |-> <<>>, responses |-> <<>>,
     audioResponse |-> "-", story |-> "-", result |-> NoResult, results |-> <<>>]

StoryUploadIdle == storyUpload = NoStoryUpload

OtherIdle ==
    /\ AuthIdle
    /\ UploadIdle
    /\ StoriesIdle
    /\ StepperIdle
    /\ StoryUploadIdle

\* no polling session has been started
PollerIdle ==
    /\ phase = "Idle"
    /\ maxRetries = 0
    /\ pollInterval = DefaultPollInterval
    /\ retryCount = 0
    /\ inFlight = 0
    /\ timers = <<>>
    /\ calls = <<>>
    /\ polls = <<>>
    /\ requests = 0

Init ==
    /\ PollerIdle
    /\ WaitIdle
    /\ LookupIdle
    /\ PlayerIdle
    /\ OtherIdle

\* poll() up to its await: getProcessingStatus issues the GET and suspends
getProcessingStatus ==
    /\ inFlight' = inFlight + 1
    /\ requests' = requests + 1

\* variant: the budget counts attempts, the first one included
RetryOrGiveUp_CountsAttempts(made, delay, message) ==
    IF retryCount + 1 < maxRetries
    THEN /\ retryCount' = retryCount + 1
         /\ timers' = Append(timers, [delay |-> delay])
         /\ calls' = calls \o made
    ELSE /\ calls' = calls \o made \o <<ErrorCall(message)>>
         /\ UNCHANGED <<retryCount, timers>>

\* variant: with the budget spent the else branch only logs, onError is not called
RetryOrGiveUp_SilentGiveUp(made, delay, message) ==
    IF retryCount < maxRetries
    THEN /\ retryCount' = retryCount + 1
         /\ timers' = Append(timers, [delay |-> delay])
         /\ calls' = calls \o made
    ELSE /\ calls' = calls \o made
         /\ UNCHANGED <<retryCount, timers>>

\* the if/else that ends both branches of poll(): with budget left, count a
\* retry and set one timer; otherwise report `message` through onError
RetryOrGiveUp(made, delay, message) ==
    IF retryCount < maxRetries
    THEN /\ retryCount' = retryCount + 1
         /\ timers' = Append(timers, [delay |-> delay])
         /\ calls' = calls \o made
    ELSE /\ calls' = calls \o made \o <<ErrorCall(message)>>
         /\ UNCHANGED <<retryCount, timers>>

\* the call of pollProcessingStatus(storyId, onUpdate, onComplete, onError, pi, mr)
pollProcessingStatus(mr, pi) ==
    /\ phase = "Idle"
    /\ phase' = "Polling"
    /\ maxRetries' = mr
    /\ pollInterval' = pi
    /\ retryCount' = 0
    /\ getProcessingStatus
    /\ UNCHANGED <<timers, calls, polls>>

\* variant: no `return` after onComplete, the code falls through to the budget check
PollResolved_CompleteFallsThrough(status) ==
    /\ inFlight > 0
    /\ inFlight' = inFlight - 1
    /\ polls' = Append(polls, Fulfilled(status))
    /\ IF status.current_step = "published"
       THEN RetryOrGiveUp(<<UpdateCall(status), CompleteCall(status)>>, pollInterval, TimeoutMessage)
       ELSE IF status.current_step = "failed"
       THEN /\ calls' = calls \o <<UpdateCall(status), ErrorCall(FailedMessage(status))>>
            /\ UNCHANGED <<retryCount, timers>>
       ELSE RetryOrGiveUp(<<UpdateCall(status)>>, pollInterval, TimeoutMessage)
    /\ UNCHANGED <<phase, maxRetries, pollInterval, requests>>

\* variant: no `return` after onError, the code falls through to the budget check
PollResolved_FailedFallsThrough(status) ==
    /\ inFlight > 0
    /\ inFlight' = inFlight - 1
    /\ polls' = Append(polls, Fulfilled(status))
    /\ IF status.current_step = "published"
       THEN /\ calls' = calls \o <<UpdateCall(status), CompleteCall(status)>>
            /\ UNCHANGED <<retryCount, timers>>
       ELSE IF status.current_step = "failed"
       THEN RetryOrGiveUp(<<UpdateCall(status), ErrorCall(FailedMessage(status))>>,
                          pollInterval, TimeoutMessage)
       ELSE RetryOrGiveUp(<<UpdateCall(status)>>, pollInterval, TimeoutMessage)
    /\ UNCHANGED <<phase, maxRetries, pollInterval, requests>>

\* variant: onUpdate is called only after the two terminal checks
PollResolved_UpdateAfterChecks(status) ==
    /\ inFlight > 0
    /\ inFlight' = inFlight - 1
    /\ polls' = Append(polls, Fulfilled(status))
    /\ IF status.current_step = "published"
       THEN /\ calls' = calls \o <<CompleteCall(status)>>
            /\ UNCHANGED <<retryCount, timers>>
       ELSE IF status.current_step = "failed"
       THEN /\ calls' = calls \o <<ErrorCall(FailedMessage(status))>>
            /\ UNCHANGED <<retryCount, timers>>
       ELSE RetryOrGiveUp(<<UpdateCall(status)>>, pollInterval, TimeoutMessage)
    /\ UNCHANGED <<phase, maxRetries, pollInterval, requests>>

\* variant: the budget is checked before the terminal steps
PollResolved_BudgetFirst(status) ==
    /\ inFlight > 0
    /\ inFlight' = inFlight - 1
    /\ polls' = Append(polls, Fulfilled(status))
    /\ IF retryCount >= maxRetries
       THEN /\ calls' = calls \o <<UpdateCall(status), ErrorCall(TimeoutMessage)>>
            /\ UNCHANGED <<retryCount, timers>>
       ELSE IF status.current_step = "published"
       THEN /\ calls' = calls \o <<UpdateCall(status), CompleteCall(status)>>
            /\ UNCHANGED <<retryCount, timers>>
       ELSE IF status.current_step = "failed"
       THEN /\ calls' = calls \o <<UpdateCall(status), ErrorCall(FailedMessage(status))>>
            /\ UNCHANGED <<retryCount, timers>>
       ELSE RetryOrGiveUp(<<UpdateCall(status)>>, pollInterval, TimeoutMessage)
    /\ UNCHANGED <<phase, maxRetries, pollInterval, requests>>

\* the status request resolves with `status`: poll() resumes after its await
PollResolved(status) ==
    /\ inFlight > 0
    /\ inFlight' = inFlight - 1
    /\ polls' = Append(polls, Fulfilled(status))
    /\ IF status.current_step = "published"
       THEN /\ calls' = calls \o <<UpdateCall(status), CompleteCall(status)>>
            /\ UNCHANGED <<retryCount, timers>>
       ELSE IF status.current_step = "failed"
       THEN /\ calls' = calls \o <<UpdateCall(status), ErrorCall(FailedMessage(status))>>
            /\ UNCHANGED <<retryCount, timers>>
       ELSE RetryOrGiveUp(<<UpdateCall(status)>>, pollInterval, TimeoutMessage)
    /\ UNCHANGED <<phase, maxRetries, pollInterval, requests>>

\* variant: the catch block reports the timeout message when the budget is spent
PollRejected_TimeoutMessage(error) ==
    /\ inFlight > 0
    /\ inFlight' = inFlight - 1
    /\ polls' = Append(polls, Rejected(error))
    /\ RetryOrGiveUp(<<>>, ErrorInterval(pollInterval), TimeoutMessage)
    /\ UNCHANGED <<phase, maxRetries, pollInterval, requests>>

\* variant: an authentication failure ends the session at once
PollRejected_AuthIsFatal(error) ==
    /\ inFlight > 0
    /\ inFlight' = inFlight - 1
    /\ polls' = Append(polls, Rejected(error))
    /\ IF error.status = 401
       THEN /\ calls' = Append(calls, ErrorCall(error.detail))
            /\ UNCHANGED <<retryCount, timers>>
       ELSE RetryOrGiveUp(<<>>, ErrorInterval(pollInterval), StatusCheckFailedMessage)
    /\ UNCHANGED <<phase, maxRetries, pollInterval, requests>>

\* the status request rejects with `error`: the catch block of poll()
PollRejected(error) ==
    /\ inFlight > 0
    /\ inFlight' = inFlight - 1
    /\ polls' = Append(polls, Rejected(error))
    /\ RetryOrGiveUp(<<>>, ErrorInterval(pollInterval), StatusCheckFailedMessage)
    /\ UNCHANGED <<phase, maxRetries, pollInterval, requests>>

\* variant: setInterval instead of setTimeout, the timer stays armed
TimerFires_Interval ==
    /\ timers # <<>>
    /\ requests < MaxRequests
    /\ getProcessingStatus
    /\ UNCHANGED <<phase, maxRetries, pollInterval, retryCount, timers, calls, polls>>

\* a timer set by poll() fires: poll() runs again
TimerFires ==
    /\ timers # <<>>
    /\ requests < MaxRequests
    /\ \E i \in 1..Len(timers) :
         timers' = SubSeq(timers, 1, i - 1) \o SubSeq(timers, i + 1, Len(timers))
    /\ getProcessingStatus
    /\ UNCHANGED <<phase, maxRetries, pollInterval, retryCount, calls, polls>>

StartPolling == \E mr \in MaxRetriesValues, pi \in PollIntervals : pollProcessingStatus(mr, pi)

RequestResolves == \E status \in ProcessingStatusResponse : PollResolved(status)

RequestRejects == \E error \in ApiError : PollRejected(error)

Next ==
    \/ StartPolling /\ UNCHANGED notPollerVars
    \/ RequestResolves /\ UNCHANGED notPollerVars
    \/ RequestRejects /\ UNCHANGED notPollerVars
    \/ TimerFires /\ UNCHANGED notPollerVars

Spec == Init /\ [][Next]_vars

\* every status request eventually settles and every timer eventually fires
FairSpec ==
    /\ Spec
    /\ WF_vars((RequestResolves \/ RequestRejects) /\ UNCHANGED notPollerVars)
    /\ WF_vars(TimerFires /\ UNCHANGED notPollerVars)

(* ---- waitForProcessingComplete: the poller behind a promise ---- *)

PendingPromise == [state |-> "pending", status |-> NoStatus, message |-> NoMessage]

\* resolve(status); a promise that is already settled ignores the call
Resolve(p, status) ==
    IF p.state = "pending"
    THEN [state |-> "fulfilled", status |-> status, message |-> NoMessage]
    ELSE p

\* reject(new Error(error)); a promise that is already settled ignores the call
Reject(p, message) ==
    IF p.state = "pending"
    THEN [state |-> "rejected", status |-> NoStatus, message |-> message]
    ELSE p

\* variant: the update callback also resolves once the story is published
WrapperCallback_ResolveOnUpdate(p, call) ==
    IF call.cb = "onComplete" THEN Resolve(p, call.status)
    ELSE IF call.cb = "onError" THEN Reject(p, call.message)
    ELSE IF call.status.current_step = "published" THEN Resolve(p, call.status)
    ELSE p

\* the three callbacks the wrapper hands to pollProcessingStatus
WrapperCallback(p, call) ==
    IF call.cb = "onComplete" THEN Resolve(p, call.status)
    ELSE IF call.cb = "onError" THEN Reject(p, call.message)
    ELSE p

\* 1 when the callback called resolve or reject, whatever the promise did with it
SettleCalls(call) ==
    IF WrapperCallback(PendingPromise, call) # PendingPromise THEN 1 ELSE 0

RECURSIVE RunCallbacks(_, _)
RunCallbacks(p, made) ==
    IF made = <<>> THEN p
    ELSE RunCallbacks(WrapperCallback(p, Head(made)), Tail(made))

RECURSIVE CountSettleCalls(_)
CountSettleCalls(made) ==
    IF made = <<>> THEN 0
    ELSE SettleCalls(Head(made)) + CountSettleCalls(Tail(made))

\* the callbacks a step of poll() invoked are the wrapper's: run them on the promise
WrapperCallbacksRun ==
    /\ promise' = RunCallbacks(promise, SubSeq(calls', Len(calls) + 1, Len(calls')))
    /\ settles' = settles + CountSettleCalls(SubSeq(calls', Len(calls) + 1, Len(calls')))
    /\ UNCHANGED pollPromise

\* new Promise((resolve, reject) => this.pollProcessingStatus(...)): the async
\* pollProcessingStatus runs to its end without awaiting poll(), so the promise
\* it returns is fulfilled at once
waitForProcessingComplete(mr, pi) ==
    /\ pollProcessingStatus(mr, pi)
    /\ promise' = PendingPromise
    /\ settles' = 0
    /\ pollPromise' = "fulfilled"

StartWaiting == \E mr \in MaxRetriesValues, pi \in PollIntervals : waitForProcessingComplete(mr, pi)

notWaitVars == <<lookupVars, playerVars, otherVars>>

WaitNext ==
    \/ StartWaiting /\ UNCHANGED notWaitVars
    \/ RequestResolves /\ WrapperCallbacksRun /\ UNCHANGED notWaitVars
    \/ RequestRejects /\ WrapperCallbacksRun /\ UNCHANGED notWaitVars
    \/ TimerFires /\ UNCHANGED <<waitVars, notWaitVars>>

WaitSpec == Init /\ [][WaitNext]_vars

(* ---- the lookups of the players on every input within the bounds ---- *)

LookupInputs ==
    [kind : {"words"}, time : Times, words : WordLists, paragraphs : {<<>>}]
        \cup [kind : {"paragraphs"}, time : Times, words : {<<>>}, paragraphs : ParagraphTimings]

LookupInit ==
    /\ lookupInput \in LookupInputs
    /\ lookupResult = [word |-> NotRun, paragraph |-> NotRun, current |-> NotRun]
    /\ WaitIdle
    /\ PlayerIdle
    /\ OtherIdle
    /\ phase = "Idle"
    /\ maxRetries = 0
    /\ pollInterval = DefaultPollInterval
    /\ retryCount = 0
    /\ inFlight = 0
    /\ timers = <<>>
    /\ calls = <<>>
    /\ polls = <<>>
    /\ requests = 0

\* the word lookup of IllustratedTranscriptPlayer.handleTimeUpdate
LookupWord ==
    /\ lookupInput.kind = "words"
    /\ lookupResult' = [lookupResult EXCEPT
           !.word = FindWordIndex(lookupInput.time, lookupInput.words)]
    /\ UNCHANGED <<lookupInput, pollerVars, waitVars, playerVars, otherVars>>

\* the paragraph lookup of IllustratedTranscriptPlayer.handleTimeUpdate
LookupParagraph ==
    /\ lookupInput.kind = "paragraphs"
    /\ lookupResult' = [lookupResult EXCEPT
           !.paragraph = FindParagraphIndex(lookupInput.time, lookupInput.paragraphs)]
    /\ UNCHANGED <<lookupInput, pollerVars, waitVars, playerVars, otherVars>>

\* the paragraph lookup of EnhancedAudioPlayer.updateCurrentContent
LookupCurrentParagraph ==
    /\ lookupInput.kind = "paragraphs"
    /\ lookupResult' = [lookupResult EXCEPT
           !.current = findCurrentParagraph(lookupInput.time, lookupInput.paragraphs)]
    /\ UNCHANGED <<lookupInput, pollerVars, waitVars, playerVars, otherVars>>

LookupNext ==
    \/ LookupWord
    \/ LookupParagraph
    \/ LookupCurrentParagraph

LookupSpec == LookupInit /\ [][LookupNext]_vars

(* ---- the two players: EnhancedAudioPlayer and IllustratedTranscriptPlayer ---- *)

\* status of an illustration as the API delivers it
IllustrationStatuses == {"generated", "pending"}

\* the illustrations of a paragraph, by their statuses: at most one of each
IllustrationLists ==
    {l \in SeqsUpTo(IllustrationStatuses, MaxIllustrations) :
        \A i, j \in 1..Len(l) : i < j => l[i] # l[j]}

\* a paragraph of a story as the API types it: its time range (two numbers)
\* and its illustrations
Paragraph ==
    {p \in [start_time : Times, end_time : Times, illustrations : IllustrationLists] :
        p.start_time < p.end_time}

\* timed entries in playback order, no two overlapping
InOrder(list) ==
    \A i, j \in 1..Len(list) :
        i < j => list[i].end_time <= list[j].start_time

\* the timed words of a text: each with a positive duration, in order
TimedWords ==
    {l \in WordLists :
        /\ Len(l) >= 1
        /\ InOrder(l)
        /\ \A i \in 1..Len(l) : l[i].start_time < l[i].end_time}

\* the words of the transcript of a recording
TranscriptWords == {l \in TimedWords : Len(l) = MaxWords}

\* a translation: its language and, optionally, its own timed words
Translation ==
    [language : {"fr"}, hasWords : {FALSE}, words : {<<>>}]
        \cup [language : {"fr"}, hasWords : {TRUE}, words : TimedWords]

TranslationLists == SeqsUpTo(Translation, 1)

StoryParagraphs ==
    {l \in SeqsUpTo(Paragraph, MaxParagraphs) : Len(l) >= 1 /\ InOrder(l)}

\* audio.duration
Duration == MaxTime

\* the step of the skip buttons, in seconds
SkipSeconds == 10

\* Math.max(0, Math.min(duration, time))
Clamp(time) == IF time < 0 THEN 0 ELSE IF time > Duration THEN Duration ELSE time

\* no image: currentIllustration null
NoImage == [paragraph |-> NoIndex, index |-> NoIndex]

\* paragraph.illustrations.find(ill => ill.status === 'generated'), by its index
FirstGenerated(illustrations) ==
    FindIndexFrom([i \in 1..Len(illustrations) |-> illustrations[i] = "generated"],
                  illustrations, 1)

\* translations.find(t => t.language === selectedLanguage), by its index
FindTranslation(language) ==
    FindIndexFrom([i \in 1..Len(props.translations) |->
                      props.translations[i].language = language],
                  props.translations, 1)

\* the transcript of the original recording; a text is named by its language
OriginalTranscript == [text |-> "original", words |-> props.words]

\* getCurrentTranscript of IllustratedTranscriptPlayer
getCurrentTranscript(selectedLanguage) ==
    IF selectedLanguage = "original" THEN OriginalTranscript
    ELSE IF /\ FindTranslation(selectedLanguage) # NoIndex
            /\ props.translations[FindTranslation(selectedLanguage) + 1].hasWords
    THEN [text |-> props.translations[FindTranslation(selectedLanguage) + 1].language,
          words |-> props.translations[FindTranslation(selectedLanguage) + 1].words]
    ELSE OriginalTranscript

\* the component is mounted with its props; useState gives the initial values
Mount(component, p) ==
    /\ player = "none"
    /\ player' = component
    /\ props' = p
    /\ audioTime' = 0
    /\ state' = InitialState
    /\ rendered' = InitialState
    /\ UNCHANGED lastEvent

MountEnhancedAudioPlayer ==
    /\ player = "none"
    /\ \E paragraphs \in StoryParagraphs :
        Mount("EnhancedAudioPlayer",
              [words |-> <<>>, translations |-> <<>>, paragraphs |-> paragraphs])

MountIllustratedTranscriptPlayer ==
    /\ player = "none"
    /\ \E words \in TranscriptWords, translations \in TranslationLists,
          paragraphs \in StoryParagraphs :
        Mount("IllustratedTranscriptPlayer",
              [words |-> words, translations |-> translations, paragraphs |-> paragraphs])

\* React renders the component with the state set so far
Render ==
    /\ player # "none"
    /\ rendered # state
    /\ rendered' = state
    /\ UNCHANGED <<player, props, audioTime, state, lastEvent>>

(* ---- EnhancedAudioPlayer ---- *)

\* the illustration updateCurrentContent selects for the paragraph it found
IllustrationFor(paragraph) ==
    IF paragraph # NoIndex /\ Len(props.paragraphs[paragraph + 1].illustrations) > 0
    THEN IF FirstGenerated(props.paragraphs[paragraph + 1].illustrations) # NoIndex
         THEN [paragraph |-> paragraph,
               index |-> FirstGenerated(props.paragraphs[paragraph + 1].illustrations)]
         ELSE NoImage
    ELSE NoImage

\* updateCurrentContent: the paragraph found is compared with the
\* currentParagraph of the render the callback was created in
updateCurrentContent(s, time) ==
    IF findCurrentParagraph(time, props.paragraphs) # rendered.currentParagraph
    THEN [s EXCEPT !.currentParagraph = findCurrentParagraph(time, props.paragraphs),
                   !.currentIllustration =
                       IllustrationFor(findCurrentParagraph(time, props.paragraphs))]
    ELSE s

\* what handleTimeUpdate, handleSeek, skip and jumpToParagraph share:
\* audio.currentTime is `time`, setCurrentTime(time), updateCurrentContent(time)
EnhancedAudioPlayer_at(handler, time) ==
    /\ player = "EnhancedAudioPlayer"
    /\ audioTime' = time
    /\ state' = updateCurrentContent([state EXCEPT !.currentTime = time], time)
    /\ lastEvent' =
           [handler |-> handler,
            wordIndex |-> NotRun,
            paragraphIndex |-> findCurrentParagraph(time, props.paragraphs),
            wordChanged |-> FALSE,
            paragraphChanged |-> findCurrentParagraph(time, props.paragraphs)
                                     # rendered.currentParagraph]
    /\ UNCHANGED <<player, props, rendered>>

\* the 'timeupdate' listener: playback has reached `time`
EnhancedAudioPlayer_handleTimeUpdate ==
    \E time \in Times :
        /\ time >= audioTime
        /\ EnhancedAudioPlayer_at("handleTimeUpdate", time)

\* the progress bar is dragged to newTime
EnhancedAudioPlayer_handleSeek ==
    \E newTime \in Times : EnhancedAudioPlayer_at("handleSeek", newTime)

\* the skip buttons: skip(-10) and skip(10), from the currentTime of the render
EnhancedAudioPlayer_skip ==
    \E seconds \in {0 - SkipSeconds, SkipSeconds} :
        EnhancedAudioPlayer_at("skip", Clamp(rendered.currentTime + seconds))

\* a paragraph of the paragraph list is clicked
EnhancedAudioPlayer_jumpToParagraph ==
    \E i \in 1..Len(props.paragraphs) :
        EnhancedAudioPlayer_at("jumpToParagraph", props.paragraphs[i].start_time)

\* the gallery button on the synchronized image, and the close button of the
\* gallery: setShowImageGallery(!showImageGallery), setShowImageGallery(false)
EnhancedAudioPlayer_gallery ==
    /\ player = "EnhancedAudioPlayer"
    /\ \/ /\ rendered.currentIllustration # NoImage
          /\ state' = [state EXCEPT !.showImageGallery = ~rendered.showImageGallery]
       \/ /\ rendered.showImageGallery /\ rendered.currentParagraph # NoIndex
          /\ state' = [state EXCEPT !.showImageGallery = FALSE]
    /\ lastEvent' = [NoEvent EXCEPT !.handler = "setShowImageGallery"]
    /\ UNCHANGED <<player, props, audioTime, rendered>>

(* ---- IllustratedTranscriptPlayer ---- *)

\* handleTimeUpdate after its two lookups: each index found is compared with
\* the index of the render the callback was created in
handleTimeUpdate(time, wordIndex, paragraphIndex) ==
    /\ state' = [state EXCEPT
           !.currentTime = time,
           !.currentWordIndex =
               IF wordIndex # rendered.currentWordIndex THEN wordIndex ELSE @,
           !.currentParagraphIndex =
               IF paragraphIndex # rendered.currentParagraphIndex
               THEN paragraphIndex ELSE @]
    /\ lastEvent' =
           [handler |-> "handleTimeUpdate",
            wordIndex |-> wordIndex,
            paragraphIndex |-> paragraphIndex,
            wordChanged |-> wordIndex # rendered.currentWordIndex,
            paragraphChanged |-> paragraphIndex # rendered.currentParagraphIndex]

IllustratedTranscriptPlayer_handleTimeUpdate_FromCursor ==
    \E time \in Times :
        /\ player = "IllustratedTranscriptPlayer"
        /\ time >= audioTime
        /\ audioTime' = time
        /\ handleTimeUpdate(
               time,
               FindWordIndex(time, getCurrentTranscript(rendered.selectedLanguage).words),
               FindIndexFrom([i \in 1..Len(props.paragraphs) |->
                                 ParagraphActive(time, props.paragraphs[i])],
                             props.paragraphs,
                             IF state.currentParagraphIndex = NoIndex
                             THEN 1 ELSE state.currentParagraphIndex + 1))
        /\ UNCHANGED <<player, props, rendered>>

\* the onTimeUpdate handler of the <audio> element: playback has reached `time`
IllustratedTranscriptPlayer_handleTimeUpdate ==
    \E time \in Times :
        /\ player = "IllustratedTranscriptPlayer"
        /\ time >= audioTime
        /\ audioTime' = time
        /\ handleTimeUpdate(
               time,
               FindWordIndex(time, getCurrentTranscript(rendered.selectedLanguage).words),
               FindParagraphIndex(time, props.paragraphs))
        /\ UNCHANGED <<player, props, rendered>>

\* handleEnded: playback has reached the end of the audio
IllustratedTranscriptPlayer_handleEnded ==
    /\ player = "IllustratedTranscriptPlayer"
    /\ audioTime = Duration
    /\ state' = [state EXCEPT !.currentTime = 0,
                              !.currentWordIndex = NoIndex,
                              !.currentParagraphIndex = NoIndex]
    /\ lastEvent' = [NoEvent EXCEPT !.handler = "handleEnded"]
    /\ UNCHANGED <<player, props, audioTime, rendered>>

seekTo_Recomputes(handler, time) ==
    /\ player = "IllustratedTranscriptPlayer"
    /\ audioTime' = time
    /\ state' = [state EXCEPT
           !.currentTime = time,
           !.currentWordIndex =
               FindWordIndex(time, getCurrentTranscript(rendered.selectedLanguage).words),
           !.currentParagraphIndex = FindParagraphIndex(time, props.paragraphs)]
    /\ lastEvent' = [NoEvent EXCEPT !.handler = handler]
    /\ UNCHANGED <<player, props, rendered>>

\* seekTo: audio.currentTime = time; setCurrentTime(time)
seekTo(handler, time) ==
    /\ player = "IllustratedTranscriptPlayer"
    /\ audioTime' = time
    /\ state' = [state EXCEPT !.currentTime = time]
    /\ lastEvent' = [NoEvent EXCEPT !.handler = handler]
    /\ UNCHANGED <<player, props, rendered>>

\* the progress bar: onChange={(e) => seekTo(parseFloat(e.target.value))}
IllustratedTranscriptPlayer_progressBar ==
    \E time \in Times : seekTo("seekTo", time)

\* a word of the transcript shown is clicked: seekTo(word.start_time)
IllustratedTranscriptPlayer_wordClick ==
    \E i \in 1..Len(getCurrentTranscript(rendered.selectedLanguage).words) :
        seekTo("seekTo", getCurrentTranscript(rendered.selectedLanguage).words[i].start_time)

\* the skip buttons: skip(-10) and skip(10), from the currentTime of the render
IllustratedTranscriptPlayer_skip ==
    \E seconds \in {0 - SkipSeconds, SkipSeconds} :
        seekTo("skip", Clamp(rendered.currentTime + seconds))

\* the language buttons: 'original' and one per translation
IllustratedTranscriptPlayer_setSelectedLanguage ==
    \E language \in {"original"} \cup
            {props.translations[i].language : i \in 1..Len(props.translations)} :
        /\ player = "IllustratedTranscriptPlayer"
        /\ state' = [state EXCEPT !.selectedLanguage = language]
        /\ lastEvent' = [NoEvent EXCEPT !.handler = "setSelectedLanguage"]
        /\ UNCHANGED <<player, props, audioTime, rendered>>

notPlayerVars == <<pollerVars, waitVars, lookupVars, otherVars>>

PlayerNext ==
    \/ MountEnhancedAudioPlayer /\ UNCHANGED notPlayerVars
    \/ MountIllustratedTranscriptPlayer /\ UNCHANGED notPlayerVars
    \/ Render /\ UNCHANGED notPlayerVars
    \/ EnhancedAudioPlayer_handleTimeUpdate /\ UNCHANGED notPlayerVars
    \/ EnhancedAudioPlayer_handleSeek /\ UNCHANGED notPlayerVars
    \/ EnhancedAudioPlayer_skip /\ UNCHANGED notPlayerVars
    \/ EnhancedAudioPlayer_jumpToParagraph /\ UNCHANGED notPlayerVars
    \/ EnhancedAudioPlayer_gallery /\ UNCHANGED notPlayerVars
    \/ IllustratedTranscriptPlayer_handleTimeUpdate /\ UNCHANGED notPlayerVars
    \/ IllustratedTranscriptPlayer_handleEnded /\ UNCHANGED notPlayerVars
    \/ IllustratedTranscriptPlayer_progressBar /\ UNCHANGED notPlayerVars
    \/ IllustratedTranscriptPlayer_wordClick /\ UNCHANGED notPlayerVars
    \/ IllustratedTranscriptPlayer_skip /\ UNCHANGED notPlayerVars
    \/ IllustratedTranscriptPlayer_setSelectedLanguage /\ UNCHANGED notPlayerVars

PlayerSpec == Init /\ [][PlayerNext]_vars

(* ---- what the page of the last render shows ---- *)

\* the transcript whose words are rendered
ShownTranscript == getCurrentTranscript(rendered.selectedLanguage)

\* the rendered words with the highlight: index === currentWordIndex
HighlightedWords ==
    {i \in 0..(Len(ShownTranscript.words) - 1) : i = rendered.currentWordIndex}

\* the paragraph the render marks as the current one
ActiveParagraph ==
    IF player = "EnhancedAudioPlayer" THEN rendered.currentParagraph
    ELSE rendered.currentParagraphIndex

\* the illustration shown for the current paragraph: the image of
\* currentIllustration (EnhancedAudioPlayer), the card with isCurrent of the
\* illustrations panel, which holds paragraph.illustrations[0]
\* (IllustratedTranscriptPlayer)
SynchronizedImage ==
    IF player = "EnhancedAudioPlayer" THEN rendered.currentIllustration
    ELSE IF /\ rendered.currentParagraphIndex # NoIndex
            /\ Len(props.paragraphs[rendered.currentParagraphIndex + 1].illustrations) > 0
    THEN [paragraph |-> rendered.currentParagraphIndex, index |-> 0]
    ELSE NoImage

\* the gallery of EnhancedAudioPlayer: currentParagraph.illustrations.map(...)
GalleryImages ==
    IF /\ player = "EnhancedAudioPlayer"
       /\ rendered.showImageGallery
       /\ rendered.currentParagraph # NoIndex
    THEN {[paragraph |-> rendered.currentParagraph, index |-> k - 1] :
             k \in 1..Len(props.paragraphs[rendered.currentParagraph + 1].illustrations)}
    ELSE {}

\* the illustrations panel of IllustratedTranscriptPlayer: one card per
\* paragraph, with paragraph.illustrations[0] when there is one
PanelImages ==
    IF player = "IllustratedTranscriptPlayer"
    THEN {[paragraph |-> i - 1, index |-> 0] :
             i \in {j \in 1..Len(props.paragraphs) :
                       Len(props.paragraphs[j].illustrations) > 0}}
    ELSE {}

DisplayedImages ==
    (IF player = "EnhancedAudioPlayer" /\ rendered.currentIllustration # NoImage
     THEN {rendered.currentIllustration} ELSE {})
        \cup GalleryImages \cup PanelImages

StatusOf(image) == props.paragraphs[image.paragraph + 1].illustrations[image.index + 1]

(* ---- the API client, AuthService and AuthProvider ---- *)

\* the access tokens the backend issues
Tokens == {"t1", "t2"}

\* ApiClient.setToken
setToken_KeepsMemory(client, token) ==
    [client EXCEPT !.localStorage = token]

setToken(client, token) ==
    [token |-> token,
     localStorage |-> IF token # NoToken THEN token ELSE NoToken]

\* ApiClient.getToken: this.token || localStorage.getItem('access_token')
getToken(client) ==
    IF client.token # NoToken THEN client.token ELSE client.localStorage

\* ApiClient.request / postFormData: the Authorization header is the token
\* getToken returns, absent when it returns null; the request is logged with
\* the token of the login in force when it is sent
Request(client, endpoint, session) ==
    [endpoint |-> endpoint, authorization |-> getToken(client), session |-> session]

\* the page is loaded: the constructor of ApiClient reads localStorage, and
\* the effect of AuthProvider runs initializeAuth up to its await
AuthInit ==
    /\ PollerIdle /\ WaitIdle /\ LookupIdle /\ PlayerIdle /\ UploadIdle /\ StoriesIdle /\ StepperIdle /\ StoryUploadIdle
    /\ \E stored \in Tokens \cup {NoToken} :
           /\ apiClient = [token |-> stored, localStorage |-> stored]
           /\ authState = [user |-> NoUser, isLoading |-> stored # NoToken, error |-> NoError]
           /\ authTasks = IF stored # NoToken
                          THEN <<[op |-> "initializeAuth", awaiting |-> "/auth/me"]>>
                          ELSE <<>>
           /\ authLog = [lastRequest |-> IF stored # NoToken
                                         THEN [endpoint |-> "/auth/me",
                                               authorization |-> stored,
                                               session |-> stored]
                                         ELSE NoRequest,
                         lastLogin |-> NoLogin,
                         session |-> stored]

Without(tasks, i) == SubSeq(tasks, 1, i - 1) \o SubSeq(tasks, i + 1, Len(tasks))

\* AuthProvider.login up to its first await: authService.login posts the
\* credentials
AuthProvider_login ==
    /\ Len(authTasks) < MaxAuthTasks
    /\ authState' = [authState EXCEPT !.isLoading = TRUE, !.error = NoError]
    /\ authTasks' = Append(authTasks, [op |-> "login", awaiting |-> "/auth/login"])
    /\ authLog' = [authLog EXCEPT
           !.lastRequest = Request(apiClient, "/auth/login", authLog.session)]
    /\ UNCHANGED apiClient

\* the response to POST /auth/login. 200: authService.login stores the token
\* and AuthProvider.login goes on to refreshUser, which requests /auth/me.
\* An error: the catch of AuthProvider.login sets error and rethrows, the
\* finally clears isLoading
LoginResponds ==
    \E i \in 1..Len(authTasks) :
        /\ authTasks[i].awaiting = "/auth/login"
        /\ \/ \E token \in Tokens :
                 /\ apiClient' = setToken(apiClient, token)
                 /\ authTasks' = [authTasks EXCEPT ![i].awaiting = "/auth/me"]
                 /\ authLog' = [authLog EXCEPT
                        !.session = token,
                        !.lastRequest = Request(apiClient', "/auth/me", token)]
                 /\ UNCHANGED authState
           \/ \E error \in ApiError :
                 /\ authState' = [authState EXCEPT !.error = error.detail,
                                                   !.isLoading = FALSE]
                 /\ authTasks' = Without(authTasks, i)
                 /\ authLog' = [authLog EXCEPT
                        !.lastLogin = [outcome |-> "threw",
                                       user |-> authState.user,
                                       error |-> error.detail,
                                       isLoading |-> FALSE]]
                 /\ UNCHANGED apiClient

\* the response of GET /auth/me to a valid token
CurrentUser == [status |-> 200, detail |-> "user"]

\* refreshUser after its await, as [client, state, session]: setUser on 200,
\* logout and setUser(null) on 401, setError on any other ApiError
refreshUser(client, st, session, response) ==
    IF response.status = 200
    THEN [client |-> client, state |-> [st EXCEPT !.user = "user"], session |-> session]
    ELSE IF response.status = 401
    THEN [client |-> setToken(client, NoToken),
          state |-> [st EXCEPT !.user = NoUser],
          session |-> NoToken]
    ELSE [client |-> client,
          state |-> [st EXCEPT !.error = response.detail],
          session |-> session]

\* the response to GET /auth/me reaches refreshUser; then its caller goes on:
\* login and initializeAuth clear isLoading in their finally, and login
\* returns normally
MeResponds ==
    \E i \in 1..Len(authTasks), response \in {CurrentUser} \cup ApiError :
        /\ authTasks[i].awaiting = "/auth/me"
        /\ LET after == refreshUser(apiClient, authState, authLog.session, response)
               caller == authTasks[i].op
           IN /\ apiClient' = after.client
              /\ authState' = IF caller \in {"login", "initializeAuth"}
                              THEN [after.state EXCEPT !.isLoading = FALSE]
                              ELSE after.state
              /\ authLog' = [authLog EXCEPT
                     !.session = after.session,
                     !.lastLogin = IF caller = "login"
                                   THEN [outcome |-> "resolved",
                                         user |-> after.state.user,
                                         error |-> after.state.error,
                                         isLoading |-> FALSE]
                                   ELSE @]
        /\ authTasks' = Without(authTasks, i)

\* refreshUser called by a page: it requests /auth/me when a token is stored
AuthProvider_refreshUser ==
    /\ Len(authTasks) < MaxAuthTasks
    /\ getToken(apiClient) # NoToken
    /\ authTasks' = Append(authTasks, [op |-> "refreshUser", awaiting |-> "/auth/me"])
    /\ authLog' = [authLog EXCEPT
           !.lastRequest = Request(apiClient, "/auth/me", authLog.session)]
    /\ UNCHANGED <<apiClient, authState>>

\* AuthProvider.logout: authService.logout(); setUser(null); setError(null)
AuthProvider_logout ==
    /\ apiClient' = setToken(apiClient, NoToken)
    /\ authState' = [authState EXCEPT !.user = NoUser, !.error = NoError]
    /\ authLog' = [authLog EXCEPT !.session = NoToken]
    /\ UNCHANGED authTasks

\* any other service sends a request through the API client
ApiRequest ==
    /\ authLog' = [authLog EXCEPT
           !.lastRequest = Request(apiClient, "/stories", authLog.session)]
    /\ UNCHANGED <<apiClient, authState, authTasks>>

notAuthVars == <<pollerVars, waitVars, lookupVars, playerVars, uploadVars, storiesPageVars, stepperVars, storyUploadVars>>

AuthNext ==
    \/ AuthProvider_login /\ UNCHANGED notAuthVars
    \/ LoginResponds /\ UNCHANGED notAuthVars
    \/ MeResponds /\ UNCHANGED notAuthVars
    \/ AuthProvider_refreshUser /\ UNCHANGED notAuthVars
    \/ AuthProvider_logout /\ UNCHANGED notAuthVars
    \/ ApiRequest /\ UNCHANGED notAuthVars

AuthSpec == AuthInit /\ [][AuthNext]_vars

(* ---- UploadPage.handleSubmit: the poller and the fallback timer ---- *)

\* the page polls with maxRetries 40 and pollInterval 3000; the model takes
\* the largest budget of its bound in its place
UploadMaxRetries == MaxRetriesBound

\* the three callbacks handleSubmit hands to pollProcessingStatus
UploadCallback(u, call) ==
    IF call.cb = "onUpdate" THEN [u EXCEPT !.status = "processing"]
    ELSE IF call.cb = "onComplete"
    THEN [status |-> "success",
          processingTimeout |-> IF u.processingTimeout = "armed"
                                THEN "cleared" ELSE u.processingTimeout]
    ELSE [status |-> "error",
          processingTimeout |-> IF u.processingTimeout = "armed"
                                THEN "cleared" ELSE u.processingTimeout]

RECURSIVE RunUploadCallbacks(_, _)
RunUploadCallbacks(u, made) ==
    IF made = <<>> THEN u
    ELSE RunUploadCallbacks(UploadCallback(u, Head(made)), Tail(made))

\* the callbacks a step of poll() invoked are the page's
UploadCallbacksRun ==
    upload' = RunUploadCallbacks(upload, SubSeq(calls', Len(calls) + 1, Len(calls')))

\* handleSubmit after uploadCompleteStory returned with processing started:
\* setProcessingStatus('processing'), setTimeout(..., 120000), and the call
\* of pollProcessingStatus
UploadPage_handleSubmit ==
    /\ pollProcessingStatus(UploadMaxRetries, DefaultPollInterval)
    /\ upload' = [status |-> "processing", processingTimeout |-> "armed"]

\* the fallback timer fires 120000 ms after it was set
ProcessingTimeoutFires ==
    /\ upload.processingTimeout = "armed"
    /\ upload' = [status |-> "success", processingTimeout |-> "fired"]
    /\ UNCHANGED pollerVars

\* a timer of the poller fires. The last timer of the budget is due
\* maxRetries * pollInterval = 120000 ms plus the time the requests took
\* after the fallback timer was set, so an armed fallback timer fires first
UploadTimerFires ==
    /\ retryCount = maxRetries => upload.processingTimeout # "armed"
    /\ TimerFires
    /\ UNCHANGED upload

notUploadVars == <<waitVars, lookupVars, playerVars, authVars, storiesPageVars, stepperVars, storyUploadVars>>

UploadNext ==
    \/ UploadPage_handleSubmit /\ UNCHANGED notUploadVars
    \/ RequestResolves /\ UploadCallbacksRun /\ UNCHANGED notUploadVars
    \/ RequestRejects /\ UploadCallbacksRun /\ UNCHANGED notUploadVars
    \/ UploadTimerFires /\ UNCHANGED notUploadVars
    \/ ProcessingTimeoutFires /\ UNCHANGED notUploadVars

UploadSpec == Init /\ [][UploadNext]_vars

(* ---- the poller with callbacks that throw ---- *)

\* the callbacks poll() invokes for `status` up to and including `thrower`
CallsUpTo(status, thrower) ==
    IF thrower = "onUpdate" THEN <<UpdateCall(status)>>
    ELSE <<UpdateCall(status), CompleteCall(status)>>

\* the status request resolves and onUpdate or onComplete throws: the calls
\* are inside the try block of poll(), so its catch block runs as for a
\* rejected request
PollResolvedThrows(status, thrower) ==
    /\ inFlight > 0
    /\ thrower = "onComplete" => status.current_step = "published"
    /\ inFlight' = inFlight - 1
    /\ polls' = Append(polls, Fulfilled(status))
    /\ RetryOrGiveUp(CallsUpTo(status, thrower), ErrorInterval(pollInterval),
                     StatusCheckFailedMessage)
    /\ UNCHANGED <<phase, maxRetries, pollInterval, requests>>

CallbackThrows ==
    \E status \in ProcessingStatusResponse, thrower \in {"onUpdate", "onComplete"} :
        PollResolvedThrows(status, thrower)

ThrowNext ==
    \/ Next
    \/ CallbackThrows /\ UNCHANGED notPollerVars

ThrowSpec == Init /\ [][ThrowNext]_vars

(* ---- StoriesPage: the story list, its filters and the debounce ---- *)

SearchTerms == {"", "griot"}

Languages == {"", "fr"}

\* the query fetchStories builds from the state of its render: a field is
\* left out when its value is falsy, written "" here
Query(searchTerm, selectedLanguage) ==
    [search |-> searchTerm, language |-> selectedLanguage]

\* fetchStories up to its await
fetchStories(page, query) ==
    [page EXCEPT !.isLoading = TRUE, !.error = FALSE,
                 !.fetches = Append(page.fetches, query)]

\* the effect with dependencies [searchTerm, selectedLanguage]: the cleanup
\* of its previous run clears that run's timer, then a new timer is set
\* whose callback is the fetchStories of this render
DebounceEffect(page) ==
    [page EXCEPT !.timers =
        Append(IF page.timers = <<>> THEN <<>> ELSE Tail(page.timers),
               Query(page.searchTerm, page.selectedLanguage))]

\* the component mounts: both effects run, the initial load and the debounce
StoriesInit ==
    /\ PollerIdle /\ WaitIdle /\ LookupIdle /\ PlayerIdle /\ AuthIdle /\ UploadIdle /\ StepperIdle /\ StoryUploadIdle
    /\ storiesPage = DebounceEffect(fetchStories(NoStoriesPage, Query("", "")))

\* the search box, the language select and the clear button are rendered
\* only without an error and are disabled while isLoading
FiltersEnabled == ~ storiesPage.isLoading /\ ~ storiesPage.error

StoriesPage_setSearchTerm ==
    \E term \in SearchTerms :
        /\ FiltersEnabled
        /\ term # storiesPage.searchTerm
        /\ storiesPage' = DebounceEffect([storiesPage EXCEPT !.searchTerm = term])

StoriesPage_setSelectedLanguage ==
    \E language \in Languages :
        /\ FiltersEnabled
        /\ language # storiesPage.selectedLanguage
        /\ storiesPage' = DebounceEffect([storiesPage EXCEPT !.selectedLanguage = language])

\* the clear button resets both filters in one event
StoriesPage_clearFilters ==
    /\ FiltersEnabled
    /\ Query(storiesPage.searchTerm, storiesPage.selectedLanguage) # Query("", "")
    /\ storiesPage' = DebounceEffect([storiesPage EXCEPT !.searchTerm = "",
                                                         !.selectedLanguage = ""])

\* 500 ms after the effect ran its timer fires
DebounceFires ==
    /\ storiesPage.timers # <<>>
    /\ Len(storiesPage.fetches) < MaxFetches
    /\ storiesPage' = fetchStories([storiesPage EXCEPT !.timers = Tail(@)],
                                   Head(storiesPage.timers))

\* the Try Again button of the error screen
StoriesPage_retry ==
    /\ storiesPage.error
    /\ Len(storiesPage.fetches) < MaxFetches
    /\ storiesPage' = fetchStories(storiesPage,
                          Query(storiesPage.searchTerm, storiesPage.selectedLanguage))

\* a request resolves: setStories(response), and the finally clears isLoading
FetchResolves ==
    \E i \in 1..Len(storiesPage.fetches) :
        storiesPage' = [storiesPage EXCEPT !.stories = storiesPage.fetches[i],
                                           !.isLoading = FALSE,
                                           !.fetches = Without(@, i)]

\* a request rejects: setError(message), and the finally clears isLoading
FetchRejects ==
    \E i \in 1..Len(storiesPage.fetches) :
        storiesPage' = [storiesPage EXCEPT !.error = TRUE,
                                           !.isLoading = FALSE,
                                           !.fetches = Without(@, i)]

notStoriesVars == <<pollerVars, waitVars, lookupVars, playerVars, authVars, uploadVars, stepperVars, storyUploadVars>>

StoriesNext ==
    \/ StoriesPage_setSearchTerm /\ UNCHANGED notStoriesVars
    \/ StoriesPage_setSelectedLanguage /\ UNCHANGED notStoriesVars
    \/ StoriesPage_clearFilters /\ UNCHANGED notStoriesVars
    \/ DebounceFires /\ UNCHANGED notStoriesVars
    \/ StoriesPage_retry /\ UNCHANGED notStoriesVars
    \/ FetchResolves /\ UNCHANGED notStoriesVars
    \/ FetchRejects /\ UNCHANGED notStoriesVars

StoriesSpec == StoriesInit /\ [][StoriesNext]_vars

(* ---- ProcessingStepperComponent ---- *)

\* the keys of PROCESSING_STEPS, in order
PROCESSING_STEPS ==
    <<"uploading", "transcribing", "enhancing", "analyzing", "translating", "published">>

\* current_step is any string of the backend: a step of the list, 'failed',
\* or a step the list does not know
StepperStatuses ==
    [current_step : {PROCESSING_STEPS[i] : i \in DOMAIN PROCESSING_STEPS}
                        \cup {"failed", "queued"},
     progress_percentage : {0, 25, 50, 75, 100},
     transcript_text : {Undefined, "Once upon a time"},
     error : {Undefined, "audio too short"}]

\* PROCESSING_STEPS.findIndex(step => step.key === status.current_step)
currentStepIndex(status) ==
    FindIndexFrom([i \in DOMAIN PROCESSING_STEPS |-> PROCESSING_STEPS[i] = status.current_step],
                  PROCESSING_STEPS, 1)

getStepStatus(status, stepIndex) ==
    IF status.current_step = "failed" /\ stepIndex = currentStepIndex(status)
    THEN "error"
    ELSE IF stepIndex < currentStepIndex(status) THEN "completed"
    ELSE IF stepIndex = currentStepIndex(status) THEN "current"
    ELSE "pending"

\* the component renders `status`: one step state per entry of the list
ProcessingStepperComponent ==
    \E status \in StepperStatuses :
        stepper' = [status |-> status,
                    steps |-> [i \in DOMAIN PROCESSING_STEPS |-> getStepStatus(status, i - 1)],
                    isError |-> status.current_step = "failed"]

StepperInit ==
    /\ PollerIdle /\ WaitIdle /\ LookupIdle /\ PlayerIdle /\ AuthIdle /\ UploadIdle /\ StoriesIdle /\ StoryUploadIdle
    /\ StepperIdle

notStepperVars == <<pollerVars, waitVars, lookupVars, playerVars, authVars, uploadVars, storiesPageVars, storyUploadVars>>

StepperNext ==
    \/ ProcessingStepperComponent /\ UNCHANGED notStepperVars

StepperSpec == StepperInit /\ [][StepperNext]_vars

(* ---- StoriesService.uploadCompleteStory ---- *)

FileUrls == {"/media/a1.mp3", "/media/a2.mp3"}

StoryIds == {"s1", "s2"}

\* the outer catch: throw new Error(`Failed to upload story: ${error.message}`),
\* the message of an ApiError being its detail
UploadFailed(u, error) ==
    LET thrown == [NoResult EXCEPT !.kind = "threw",
                                   !.message = <<"Failed to upload story: ", error.detail>>]
    IN [u EXCEPT !.pc = "threw",
                 !.responses = Append(u.responses, "error"),
                 !.result = thrown,
                 !.results = Append(u.results, thrown)]

\* the return statement after step 3
UploadReturned(u, response, processingStarted) ==
    LET returned == [NoResult EXCEPT !.kind = "returned",
                                     !.story = u.story,
                                     !.audio_url = u.audioResponse,
                                     !.processing_started = processingStarted]
    IN [u EXCEPT !.pc = "returned",
                 !.responses = Append(u.responses, response),
                 !.result = returned,
                 !.results = Append(u.results, returned)]

\* the call, up to its first await: step 1 posts the audio file
StoriesService_uploadCompleteStory ==
    /\ storyUpload.pc \in {"idle", "returned", "threw"}
    /\ Len(storyUpload.results) < MaxUploads
    /\ storyUpload' = [NoStoryUpload EXCEPT !.pc = "/media/upload",
                                            !.requests = <<"/media/upload">>,
                                            !.results = storyUpload.results]

\* the response to POST /media/upload: step 2 posts the story with the file
\* url, an error goes to the outer catch
MediaUploadResponds ==
    /\ storyUpload.pc = "/media/upload"
    /\ \/ \E url \in FileUrls :
             storyUpload' = [storyUpload EXCEPT
                 !.pc = "/stories/",
                 !.responses = Append(@, "ok"),
                 !.audioResponse = url,
                 !.requests = Append(@, "/stories/")]
       \/ \E error \in ApiError : storyUpload' = UploadFailed(storyUpload, error)

\* the response to POST /stories/: step 3 asks for the AI processing, an error
\* goes to the outer catch
StoryCreateResponds ==
    /\ storyUpload.pc = "/stories/"
    /\ \/ \E id \in StoryIds :
             storyUpload' = [storyUpload EXCEPT
                 !.pc = "/ai/process-story",
                 !.responses = Append(@, "ok"),
                 !.story = id,
                 !.requests = Append(@, "/ai/process-story")]
       \/ \E error \in ApiError : storyUpload' = UploadFailed(storyUpload, error)

ProcessStoryResponds_Rethrows ==
    /\ storyUpload.pc = "/ai/process-story"
    /\ \/ storyUpload' = UploadReturned(storyUpload, "ok", TRUE)
       \/ \E error \in ApiError : storyUpload' = UploadFailed(storyUpload, error)

\* the response to POST /ai/process-story: the inner try sets processingStarted,
\* the inner catch only logs
ProcessStoryResponds ==
    /\ storyUpload.pc = "/ai/process-story"
    /\ \/ storyUpload' = UploadReturned(storyUpload, "ok", TRUE)
       \/ \E error \in ApiError : storyUpload' = UploadReturned(storyUpload, "error", FALSE)

StoryUploadInit ==
    /\ PollerIdle /\ WaitIdle /\ LookupIdle /\ PlayerIdle /\ AuthIdle /\ UploadIdle /\ StoriesIdle /\ StepperIdle
    /\ StoryUploadIdle

notStoryUploadVars == <<pollerVars, waitVars, lookupVars, playerVars, authVars, uploadVars, storiesPageVars, stepperVars>>

StoryUploadNext ==
    \/ StoriesService_uploadCompleteStory /\ UNCHANGED notStoryUploadVars
    \/ MediaUploadResponds /\ UNCHANGED notStoryUploadVars
    \/ StoryCreateResponds /\ UNCHANGED notStoryUploadVars
    \/ ProcessStoryResponds /\ UNCHANGED notStoryUploadVars

StoryUploadSpec == StoryUploadInit /\ [][StoryUploadNext]_vars

(* ---- observations on the logs ---- *)
RECURSIVE CountCalls(_, _)
CountCalls(log, names) ==
    IF log = <<>> THEN 0
    ELSE (IF Head(log).cb \in names THEN 1 ELSE 0) + CountCalls(Tail(log), names)

RECURSIVE CountPolls(_, _)
CountPolls(log, steps) ==
    IF log = <<>> THEN 0
    ELSE (IF Head(log).kind = "ok" /\ Head(log).status.current_step \in steps THEN 1 ELSE 0)
         + CountPolls(Tail(log), steps)

TerminalCalls == CountCalls(calls, {"onComplete", "onError"})

Quiescent == phase = "Polling" /\ inFlight = 0 /\ timers = <<>>

LastPoll == polls[Len(polls)]

LastCall == calls[Len(calls)]

IsUpdate(call) == call.cb = "onUpdate"

IsFulfilled(poll) == poll.kind = "ok"

\* the statuses handed to onUpdate, in order
UpdatesSeen == [i \in 1..Len(SelectSeq(calls, IsUpdate)) |-> SelectSeq(calls, IsUpdate)[i].status]

\* the statuses the backend answered with, in order
StatusesReceived == [i \in 1..Len(SelectSeq(polls, IsFulfilled)) |-> SelectSeq(polls, IsFulfilled)[i].status]

StepsReceived == [i \in 1..Len(polls) |-> IF polls[i].kind = "ok" THEN polls[i].status.current_step ELSE "error"]

AllNonTerminal == \A i \in 1..Len(polls) : StepsReceived[i] \in NonTerminalSteps

NoTerminalStepSeen == CountPolls(polls, TerminalSteps) = 0

(* ======================= the poller's claims ======================= *)

C2_SequentialRequests ==
    /\ inFlight <= 1
    /\ Len(timers) <= 1
    /\ inFlight = 1 => timers = <<>>

C2_Witness ==
    /\ inFlight = 1
    /\ requests = 3
    /\ StepsReceived = <<"error", "transcribing">>

\* C3 as stated: onUpdate is invoked once per successful non-terminal poll
\* and not for a terminal response.
C3_UpdateOnlyNonTerminal ==
    CountCalls(calls, {"onUpdate"}) = CountPolls(polls, NonTerminalSteps)

\* C3 as amended: onUpdate is invoked exactly once for every successful poll,
\* the terminal ones included, with the status received and in the order
\* received; a rejected request invokes no onUpdate.  uploading, transcribing,
\* published gives three onUpdate calls, a first response of failed gives one.
C3_UpdateEverySuccessfulPoll ==
    /\ UpdatesSeen = StatusesReceived
    /\ StepsReceived = <<"uploading", "transcribing", "published">>
         => CountCalls(calls, {"onUpdate"}) = 3
    /\ StepsReceived = <<"failed">> => CountCalls(calls, {"onUpdate"}) = 1

C3_Witness ==
    /\ StepsReceived = <<"uploading", "transcribing", "published">>
    /\ CountCalls(calls, {"onUpdate"}) = 3
    /\ LastCall.cb = "onComplete"

\* C4 as stated: with every poll non-terminal the session ends after exactly
\* maxRetries status requests, with onError(timeout message).
C4_ExactlyNAttempts ==
    (Quiescent /\ AllNonTerminal) =>
        /\ requests = maxRetries
        /\ LastCall = ErrorCall(TimeoutMessage)

\* C4 as amended: with every poll non-terminal the session makes exactly
\* maxRetries + 1 status requests (the first one and maxRetries scheduled
\* re-polls); the answer to the last one invokes onError once with the timeout
\* message and leaves no timer and no request behind.
C4_ExactlyNRetries ==
    (phase = "Polling" /\ AllNonTerminal) =>
        /\ requests <= maxRetries + 1
        /\ retryCount = (IF Len(polls) <= maxRetries THEN Len(polls) ELSE maxRetries)
        /\ (TerminalCalls > 0) <=> (Len(polls) = maxRetries + 1)
        /\ Quiescent =>
             /\ requests = maxRetries + 1
             /\ LastCall = ErrorCall(TimeoutMessage)
             /\ CountCalls(calls, {"onError"}) = 1
             /\ CountCalls(calls, {"onComplete"}) = 0

C4_Witness ==
    /\ maxRetries = 3
    /\ StepsReceived = <<"transcribing", "transcribing", "transcribing", "transcribing">>
    /\ requests = 4
    /\ LastCall = ErrorCall(TimeoutMessage)
    /\ Quiescent

\* C5 as stated: a session that ends without having seen a terminal step,
\* whatever its last attempt was, reports the timeout message.
C5_TimeoutMessageOnExhaustion ==
    (Quiescent /\ NoTerminalStepSeen) => LastCall = ErrorCall(TimeoutMessage)

\* C5 as amended: a session that ends without having seen a terminal step
\* reports through onError the timeout message when its last attempt returned
\* a non-terminal status, and 'Failed to check processing status' when its last
\* attempt was rejected; neither is the default message of a `failed` step.
C5_MessageByLastAttempt ==
    (Quiescent /\ NoTerminalStepSeen) =>
        /\ LastCall.cb = "onError"
        /\ LastPoll.kind = "ok" => LastCall.message = "Processing timeout - please check back later"
        /\ LastPoll.kind = "error" => LastCall.message = "Failed to check processing status"
        /\ LastCall.message # "Processing failed"

C5_Witness ==
    /\ Quiescent
    /\ StepsReceived = <<"uploading", "error">>
    /\ maxRetries = 1
    /\ LastCall = ErrorCall("Failed to check processing status")

\* C6: a rejected status request with budget left invokes no callback, adds
\* one to retryCount and sets exactly one timer of 2 x pollInterval; a
\* rejected request followed by `published` ends with onComplete and no onError.
C6_TransientErrorRetried ==
    [][ /\ ( /\ Len(polls') = Len(polls) + 1
             /\ polls'[Len(polls')].kind = "error"
             /\ retryCount < maxRetries )
          => /\ calls' = calls
             /\ retryCount' = retryCount + 1
             /\ timers' = Append(timers, [delay |-> 2 * pollInterval])
        /\ (StepsReceived' = <<"error", "published">>)
          => /\ CountCalls(calls', {"onComplete"}) = 1
             /\ CountCalls(calls', {"onError"}) = 0
      ]_vars

C6_Witness ==
    /\ StepsReceived = <<"error", "published">>
    /\ retryCount = 1
    /\ LastCall.cb = "onComplete"

C8_FailedReportsError ==
    \A i \in 1..Len(polls) :
        StepsReceived[i] = "failed" =>
            /\ i = Len(polls)
            /\ LastCall.cb = "onError"
            /\ LastCall.message =
                 (IF polls[i].status.error \in {Undefined, ""}
                  THEN "Processing failed" ELSE polls[i].status.error)
            /\ CountCalls(calls, {"onError"}) = 1
            /\ CountCalls(calls, {"onComplete"}) = 0
            /\ retryCount = Len(polls) - 1
            /\ timers = <<>>
            /\ inFlight = 0

C8_Witness ==
    /\ StepsReceived = <<"failed">>
    /\ LastPoll.status.error = ""
    /\ LastCall = ErrorCall("Processing failed")

C10_SessionTerminates ==
    (phase = "Polling") ~> (TerminalCalls = 1 /\ inFlight = 0 /\ timers = <<>>)

C10_Witness ==
    /\ Quiescent
    /\ TerminalCalls = 1
    /\ maxRetries = 3
    /\ StepsReceived = <<"error", "uploading", "error", "error">>

C12_AuthFailureIsTransportError ==
    [][ ( /\ Len(polls') = Len(polls) + 1
          /\ polls'[Len(polls')].kind = "error"
          /\ polls'[Len(polls')].httpStatus \in {401, 500} )
          => IF retryCount < maxRetries
             THEN /\ calls' = calls
                  /\ retryCount' = retryCount + 1
                  /\ timers' = Append(timers, [delay |-> 2 * pollInterval])
             ELSE /\ calls' = Append(calls, ErrorCall("Failed to check processing status"))
                  /\ retryCount' = retryCount
                  /\ timers' = timers
      ]_vars

C12_Witness ==
    /\ Len(polls) = 2
    /\ polls[1].httpStatus = 401
    /\ StepsReceived = <<"error", "uploading">>
    /\ calls = <<UpdateCall(polls[2].status)>>
    /\ retryCount = 2

(* ======================= the players' claims ======================= *)

\* the indices (0-based) of the elements of `list` whose time range, both
\* ends included, holds `time`
Containing(time, list) ==
    {i \in 0..(Len(list) - 1) :
        /\ list[i + 1].start_time # UndefinedTime
        /\ list[i + 1].end_time # UndefinedTime
        /\ list[i + 1].start_time <= time
        /\ time <= list[i + 1].end_time}

\* the same with the end excluded
ContainingHalfOpen(time, list) ==
    {i \in Containing(time, list) : time < list[i + 1].end_time}

\* the least element of a set of indices, NoIndex for the empty set
FirstOf(indices) ==
    IF indices = {} THEN NoIndex
    ELSE CHOOSE i \in indices : \A j \in indices : i <= j

\* C13: for every time and word list the word lookup returns the least index
\* of a word with start_time <= time <= end_time, also when ranges overlap,
\* and -1 when no word holds the time (before, after, in a gap).
C13_FirstActiveWord ==
    lookupResult.word # NotRun =>
        lookupResult.word = FirstOf(Containing(lookupInput.time, lookupInput.words))

C13_Witness ==
    /\ lookupResult.word = 0
    /\ Len(lookupInput.words) = 2
    /\ Containing(lookupInput.time, lookupInput.words) = {0, 1}
    /\ lookupInput.time = lookupInput.words[1].end_time

\* C14 as stated: in both players the paragraph lookup returns the first
\* paragraph with both times defined and start_time <= time <= end_time.
C14_InclusiveInEveryPlayer ==
    /\ lookupResult.paragraph # NotRun =>
         lookupResult.paragraph = FirstOf(Containing(lookupInput.time, lookupInput.paragraphs))
    /\ lookupResult.current # NotRun =>
         lookupResult.current = FirstOf(Containing(lookupInput.time, lookupInput.paragraphs))

\* C14 as amended: IllustratedTranscriptPlayer returns the first paragraph
\* with both times defined and start_time <= time <= end_time;
\* EnhancedAudioPlayer returns the first one with start_time <= time < end_time
\* (the end is exclusive); neither selects a paragraph that lacks a time, and
\* both return none otherwise.
C14_InclusiveOrHalfOpen ==
    /\ lookupResult.paragraph # NotRun =>
         lookupResult.paragraph = FirstOf(Containing(lookupInput.time, lookupInput.paragraphs))
    /\ lookupResult.current # NotRun =>
         lookupResult.current = FirstOf(ContainingHalfOpen(lookupInput.time, lookupInput.paragraphs))

C14_Witness ==
    /\ Len(lookupInput.paragraphs) = 2
    /\ lookupInput.paragraphs[1].end_time = UndefinedTime
    /\ lookupInput.paragraphs[2].end_time = lookupInput.time
    /\ lookupResult.paragraph = 1
    /\ lookupResult.current = NoIndex

(* ---- claims on the players ---- *)

\* the index the component emitted last: the value of the latest
\* setCurrentParagraph / setCurrentParagraphIndex
EmittedParagraph ==
    IF player = "EnhancedAudioPlayer" THEN state.currentParagraph
    ELSE state.currentParagraphIndex

\* C15: in every step in which a handler looks the active index up (time
\* update or seek), the 'changed' notification fires exactly when the index
\* found differs from the index emitted before, for the paragraph and for the
\* word, also when the previous update has not been rendered yet.
C15_ChangedOncePerTransition ==
    [][(rendered' = rendered /\ lastEvent'.paragraphIndex # NotRun) =>
          /\ lastEvent'.paragraphChanged = (lastEvent'.paragraphIndex # EmittedParagraph)
          /\ lastEvent'.wordIndex # NotRun =>
                 lastEvent'.wordChanged = (lastEvent'.wordIndex # state.currentWordIndex)]_vars

SeekHandlers == {"handleSeek", "skip", "jumpToParagraph", "seekTo"}

\* the word and the paragraph that hold a time, by the ranges alone
WordAt(time) == FirstOf(Containing(time, ShownTranscript.words))

ParagraphAt(time) ==
    IF player = "EnhancedAudioPlayer"
    THEN FirstOf(ContainingHalfOpen(time, props.paragraphs))
    ELSE FirstOf(Containing(time, props.paragraphs))

FirstGeneratedOf(paragraph) ==
    IF paragraph = NoIndex THEN NoImage
    ELSE IF \A k \in 1..Len(props.paragraphs[paragraph + 1].illustrations) :
                props.paragraphs[paragraph + 1].illustrations[k] # "generated"
    THEN NoImage
    ELSE [paragraph |-> paragraph,
          index |-> FirstOf({k - 1 : k \in
                       {j \in 1..Len(props.paragraphs[paragraph + 1].illustrations) :
                           props.paragraphs[paragraph + 1].illustrations[j] = "generated"}})]

\* C17: the illustration shown for the active paragraph is the first entry of
\* its illustrations with status 'generated'; with no such entry, or with no
\* active paragraph, no illustration is shown.
C17_FirstGeneratedShown ==
    player # "none" => SynchronizedImage = FirstGeneratedOf(ActiveParagraph)

\* C18: every illustration the page displays (synchronized image, gallery,
\* illustrations panel) has status 'generated'.
C18_OnlyGeneratedDisplayed ==
    \A image \in DisplayedImages : StatusOf(image) = "generated"

\* the language selected is a translation that carries no words
UntimedTranslationSelected ==
    /\ player = "IllustratedTranscriptPlayer"
    /\ rendered.selectedLanguage # "original"
    /\ \E i \in 1..Len(props.translations) :
           /\ props.translations[i].language = rendered.selectedLanguage
           /\ ~ props.translations[i].hasWords

\* C19: with a translation without word timing selected, the text shown is
\* the text of the translation and no word is highlighted.
C19_UntimedTranslationShownPlain ==
    UntimedTranslationSelected =>
        /\ ShownTranscript.text = rendered.selectedLanguage
        /\ HighlightedWords = {}

\* C20: whatever has happened before (earlier lookups, the index emitted, the
\* index rendered), a paragraph lookup returns the index fixed by the time and
\* the paragraphs alone: the least index of a paragraph that holds the time,
\* -1 when there is none; so two lookups with the same time and paragraphs
\* return the same index.
C20_LookupStateless ==
    lastEvent.paragraphIndex # NotRun => lastEvent.paragraphIndex = ParagraphAt(audioTime)

\* a lookup has run while the index emitted and the index rendered both differ
\* from the index of the time looked up
C20_Witness ==
    /\ lastEvent.paragraphIndex = 0
    /\ Len(props.paragraphs) = 2
    /\ rendered # state
    /\ lastEvent.handler = "handleTimeUpdate"
    /\ ActiveParagraph = 1

(* ---- claims on the API client and the AuthProvider ---- *)

\* C21: every request sent through the API client carries the token of the
\* login in force (the last successful login not followed by a logout) and no
\* Authorization header when there is none; while no login is in force the
\* token is absent from memory and from localStorage.
C21_TokenCarriedUntilLogout ==
    /\ authLog.lastRequest.authorization = authLog.lastRequest.session
    /\ authLog.session # NoToken =>
           apiClient.token = authLog.session /\ apiClient.localStorage = authLog.session
    /\ authLog.session = NoToken =>
           apiClient.token = NoToken /\ apiClient.localStorage = NoToken

\* a request has gone out without a header after a logout that followed a login
C21_Witness ==
    /\ authLog.lastRequest.endpoint = "/stories"
    /\ authLog.lastRequest.authorization = NoToken
    /\ authLog.lastLogin.outcome = "resolved"
    /\ authLog.lastLogin.user # NoUser
    /\ authState.user = NoUser

\* C24: whenever user is set (isAuthenticated is true), the API client holds
\* a token.
C24_UserImpliesToken ==
    authState.user # NoUser => getToken(apiClient) # NoToken

\* C25: a login that returned normally has loaded the user; a login that
\* threw has set error and cleared isLoading.
C25_LoginOutcome ==
    /\ authLog.lastLogin.outcome = "resolved" => authLog.lastLogin.user # NoUser
    /\ authLog.lastLogin.outcome = "threw" =>
           authLog.lastLogin.error # NoError /\ ~ authLog.lastLogin.isLoading

(* ---- claims on the upload page ---- *)

\* C22: once the status of a submission is 'success', no later step of the
\* same submission (a callback of the poller, the fallback timer) changes it.
C22_SuccessIsFinal ==
    [][upload.status = "success" => upload'.status = "success"]_vars

(* ---- claims on callbacks that throw ---- *)

\* C23: also when onUpdate or onComplete throws, a polling session invokes a
\* terminal callback (onComplete or onError) at most once.
C23_TerminalOnceDespiteThrow ==
    TerminalCalls <= 1

(* ---- claims on the stories page ---- *)

\* C26: once no request is outstanding and no debounce timer is pending, the
\* story list shown is the response to the current search term and language
\* filter; and at most one debounce timer is pending at any time, so a burst
\* of filter changes leads to one fetch.
C26_LatestQueryShown ==
    /\ (/\ storiesPage.fetches = <<>>
        /\ storiesPage.timers = <<>>
        /\ ~ storiesPage.error)
       => storiesPage.stories = Query(storiesPage.searchTerm, storiesPage.selectedLanguage)
    /\ Len(storiesPage.timers) <= 1

(* ---- claims on the word highlight of IllustratedTranscriptPlayer ---- *)

\* C27: in every state IllustratedTranscriptPlayer shows, currentWordIndex
\* is -1 or the index of a word of the selected transcript (the original or
\* the translation shown) whose time range contains currentTime.
C27_WordIndexInRangeAndCurrent ==
    player = "IllustratedTranscriptPlayer" =>
        \/ rendered.currentWordIndex = NoIndex
        \/ /\ rendered.currentWordIndex + 1 \in DOMAIN ShownTranscript.words
           /\ WordActive(rendered.currentTime,
                         ShownTranscript.words[rendered.currentWordIndex + 1])

(* ---- claims on the processing stepper ---- *)

StepsShown(kinds) == {i \in DOMAIN stepper.steps : stepper.steps[i] \in kinds}

\* C28: at most one step is 'current' or 'error', every step before it is
\* 'completed' and every step after it 'pending'; when current_step is
\* 'failed', exactly one step is 'error' and none is 'current'.
C28_StepStates ==
    /\ Cardinality(StepsShown({"current", "error"})) <= 1
    /\ \A i \in StepsShown({"current", "error"}) :
           \A j \in DOMAIN stepper.steps :
               /\ j < i => stepper.steps[j] = "completed"
               /\ j > i => stepper.steps[j] = "pending"
    /\ stepper.status.current_step = "failed" =>
           /\ Cardinality(StepsShown({"error"})) = 1
           /\ StepsShown({"current"}) = {}

(* ---- claims on uploadCompleteStory ---- *)

UploadSteps == <<"/media/upload", "/stories/", "/ai/process-story">>

\* C29: a call of uploadCompleteStory issues its requests in the order audio
\* upload, story creation, start of processing, each only after the one
\* before succeeded; a failed audio upload or story creation rejects with
\* 'Failed to upload story: ...' and no later request is issued; a failed
\* start of processing still returns the story, with processing_started false,
\* and a successful one returns it with processing_started true.
C29_StepsInOrder ==
    LET u == storyUpload
    IN /\ Len(u.requests) <= Len(UploadSteps)
       /\ u.requests = SubSeq(UploadSteps, 1, Len(u.requests))
       /\ \A i \in 2..Len(u.requests) : u.responses[i - 1] = "ok"
       /\ (\E i \in 1..Len(u.responses) : i <= 2 /\ u.responses[i] = "error")
              <=> u.pc = "threw"
       /\ u.pc = "threw" =>
              /\ u.result.kind = "threw"
              /\ Head(u.result.message) = "Failed to upload story: "
              /\ Len(u.requests) = Len(u.responses)
       /\ Len(u.responses) = Len(UploadSteps) =>
              /\ u.pc = "returned"
              /\ u.result.kind = "returned"
              /\ u.result.story = u.story /\ u.story \in StoryIds
              /\ u.result.audio_url = u.audioResponse
              /\ u.result.processing_started = (u.responses[3] = "ok")

\* the start of processing failed and the story was returned, after an
\* earlier call was rejected
C29_Witness ==
    /\ storyUpload.pc = "returned"
    /\ storyUpload.responses = <<"ok", "ok", "error">>
    /\ ~ storyUpload.result.processing_started
    /\ Len(storyUpload.results) = 2
    /\ storyUpload.results[1].kind = "threw"

====
